---- MODULE Spec2Model ----
(***************************************************************************)
(* Model of telegram_gpt_bot_ocr.py: the per-user bounded conversation     *)
(* history (user_context), the prompt assembly (build_messages) and the    *)
(* four message handlers (cmd_start, handle_photo, handle_document,        *)
(* handle_text) with their completion calls.                               *)
(*                                                                         *)
(* Texts are sequences of chunks.  A chunk is a string standing for a run  *)
(* of characters: a keyword, a blank " ", or some other word.  The string  *)
(* operations of the source (strip, lower, startswith, in, slicing, +) are *)
(* modelled on chunk sequences; lengths are counted in chunks.  Vietnamese  *)
(* text is written in VIQR (ASCII), e.g. "ba'o ca'o".                       *)
(***************************************************************************)
EXTENDS Naturals, Sequences, FiniteSets, TLC

----------------------------------------------------------------------------
(* Program constants *)

Capacity == 24
PreviewLen == 800
SnippetLen == 3000

SYSTEM_PROMPT == <<"Ban la tro ly chuyen gia giam dinh bao hiem xe co gioi cho Mr.P. ...">>
MEDIA_DIR == "/tmp/telegram_media"
WATERMARK_TEXT == "Mr.P 0922372220"

(* Bounds of the model *)

MaxEvents == 2
ScenarioLen == 30

Users == {1, 2}

----------------------------------------------------------------------------
(* String operations on chunk sequences *)

Min(a, b) == IF a < b THEN a ELSE b

\* s[:n]
Take(s, n) == SubSeq(s, 1, Min(n, Len(s)))

\* str.lower() on one chunk
LowerChunk(c) ==
    CASE c = "Fetch" -> "fetch"
      [] c = "Tri'ch Xua^'t" -> "tri'ch xua^'t"
      [] c = "BA'O CA'O" -> "ba'o ca'o"
      [] c = ".PDF" -> ".pdf"
      [] OTHER -> c

\* str.lower()
Lower(s) == [i \in 1..Len(s) |-> LowerChunk(s[i])]

RECURSIVE LStrip(_)
LStrip(s) == IF s # <<>> /\ Head(s) = " " THEN LStrip(Tail(s)) ELSE s

RECURSIVE RStrip(_)
RStrip(s) ==
    IF s # <<>> /\ s[Len(s)] = " " THEN RStrip(SubSeq(s, 1, Len(s) - 1)) ELSE s

\* str.strip()
Strip(s) == RStrip(LStrip(s))

\* str.startswith(p)
StartsWith(s, p) == Len(s) >= Len(p) /\ SubSeq(s, 1, Len(p)) = p

\* str.endswith(p)
EndsWith(s, p) == Len(s) >= Len(p) /\ SubSeq(s, Len(s) - Len(p) + 1, Len(s)) = p

\* kw in c, for one chunk c: the chunk "ta.o ba'o ca'o" contains "ba'o ca'o"
ChunkHas(c, kw) == c = kw \/ (c = "ta.o ba'o ca'o" /\ kw = "ba'o ca'o")

\* kw in s
Contains(s, kw) == \E i \in 1..Len(s) : ChunkHas(s[i], kw)

\* text.split(" ", 1)[1]: what follows the first blank
RECURSIVE AfterFirstBlank(_)
AfterFirstBlank(s) ==
    IF s = <<>> THEN <<>>
    ELSE IF Head(s) = " " THEN Tail(s) ELSE AfterFirstBlank(Tail(s))

----------------------------------------------------------------------------
(* Conversation store: user_context and its operations *)

UserTurn(text) == [role |-> "user", content |-> text]
AssistantTurn(text) == [role |-> "assistant", content |-> text]

\* The history of uid as a reader sees it; an absent user has none
Hist(ctx, uid) == IF uid \in DOMAIN ctx THEN ctx[uid] ELSE <<>>

\* Mutant: a fresh deque is stored whether or not uid has one
ensure_context_always_new(ctx, uid) ==
    [v \in DOMAIN ctx \cup {uid} |-> IF v = uid THEN <<>> ELSE ctx[v]]

\* ensure_context: user_context[uid] = deque(maxlen=24) when uid is absent
ensure_context(ctx, uid) ==
    IF uid \in DOMAIN ctx THEN ctx ELSE ctx @@ (uid :> <<>>)

\* Mutant: a full deque drops its newest stored item instead of its oldest
deque_append_evict_newest(d, x) ==
    IF Len(d) >= Capacity THEN Append(SubSeq(d, 1, Len(d) - 1), x) ELSE Append(d, x)

\* Mutant: a deque made without maxlen
deque_append_unbounded(d, x) == Append(d, x)

\* deque(maxlen=Capacity).append(x): a full deque drops its oldest item
deque_append(d, x) ==
    IF Len(d) >= Capacity THEN Append(Tail(d), x) ELSE Append(d, x)

\* Mutant: one deque shared by all users
push_user_shared(ctx, uid, text) ==
    LET c == ensure_context(ctx, uid)
    IN  [v \in DOMAIN c |-> deque_append(c[v], UserTurn(text))]

push_user(ctx, uid, text) ==
    LET c == ensure_context(ctx, uid)
    IN  [c EXCEPT ![uid] = deque_append(@, UserTurn(text))]

push_assistant(ctx, uid, text) ==
    LET c == ensure_context(ctx, uid)
    IN  [c EXCEPT ![uid] = deque_append(@, AssistantTurn(text))]

\* Mutant: the history is not cleared
clear_nothing(d) == d

\* deque.clear()
clear(d) == <<>>

\* Mutant: the system message is put after the history
build_messages_system_last(ctx, uid) ==
    LET h == Hist(ensure_context(ctx, uid), uid)
    IN  [i \in 1..Len(h) |->
            [role |-> h[i].role, content |-> h[i].content, ref |-> i]]
        \o <<[role |-> "system", content |-> SYSTEM_PROMPT, ref |-> 0]>>

\* The list build_messages returns.  ref names the dict object an element
\* is: 0 for the system dict made by the call, i for the dict stored at
\* position i of the user's deque (list(deque) copies the references).
build_messages(ctx, uid) ==
    LET h == Hist(ensure_context(ctx, uid), uid)
    IN  <<[role |-> "system", content |-> SYSTEM_PROMPT, ref |-> 0]>>
        \o [i \in 1..Len(h) |->
               [role |-> h[i].role, content |-> h[i].content, ref |-> i]]

----------------------------------------------------------------------------
(* Collaborators *)

\* An outcome of an external call: it raised (ok = FALSE) or returned text
Raised == [ok |-> FALSE, text |-> <<>>]
Returned(t) == [ok |-> TRUE, text |-> t]

\* call_openai: the stripped content of the first choice; a failure raises
call_openai(o) == Strip(o.text)

\* Mutant: a failure of the OCR engine comes back as text
ocr_image_error_text(o) == IF o.ok THEN Strip(o.text) ELSE <<"OCR error">>

\* ocr_image: the stripped OCR text, "" when anything raised
ocr_image(o) == IF o.ok THEN Strip(o.text) ELSE <<>>

\* Mutant: the configuration flag is not consulted
fetch_url_text_ungated(enabled, o) ==
    IF o.ok THEN Take(o.text, SnippetLen) ELSE <<>>

\* fetch_url_text: "" when scraping is disabled or anything raised,
\* otherwise the first 3000 characters of the page text
fetch_url_text(enabled, o) ==
    IF ~enabled THEN <<>>
    ELSE IF o.ok THEN Take(o.text, SnippetLen) ELSE <<>>

\* content.splitlines(): the lines of a text, without the line ends
splitlines(t) == SelectSeq(t, LAMBDA c : c # "\n")

\* Mutant: the text fallback returns the location of the PDF it did not write
generate_pdf_returns_fpath(cv, uid, title, content) ==
    [path |-> <<MEDIA_DIR, "/report_", ToString(uid), "_<time>.pdf">>,
     uid |-> uid, title |-> title, content |-> content,
     body |-> <<"BAO CAO GIAM DINH", "\n", "\n">>
              \o <<"Nguoi dung: ", ToString(uid), "\n">>
              \o <<"Tieu de: ">> \o title \o <<"\n", "\n">>
              \o content
              \o <<"\n", "\n", WATERMARK_TEXT>>]

\* generate_pdf: what is written, and the location returned.  With canvas the
\* strings drawn on the PDF at fpath; without it the strings written to
\* fpath + ".txt".
generate_pdf(cv, uid, title, content) ==
    LET fpath == <<MEDIA_DIR, "/report_", ToString(uid), "_<time>.pdf">>
    IN  IF cv
        THEN [path |-> fpath, uid |-> uid, title |-> title, content |-> content,
              body |-> <<"BAO CAO GIAM DINH - GIC Assistant">>
                       \o <<"Nguoi dung Telegram ID: ", ToString(uid)>>
                       \o <<"Tieu de: ">> \o title
                       \o splitlines(content)
                       \o <<WATERMARK_TEXT>>]
        ELSE [path |-> fpath \o <<".txt">>, uid |-> uid, title |-> title,
              content |-> content,
              body |-> <<"BAO CAO GIAM DINH", "\n", "\n">>
                       \o <<"Nguoi dung: ", ToString(uid), "\n">>
                       \o <<"Tieu de: ">> \o title \o <<"\n", "\n">>
                       \o content
                       \o <<"\n", "\n", WATERMARK_TEXT>>]

\* What the completion service, the OCR engine and a fetched page may give
CompletionOutcomes == {Raised, Returned(<<"a2", " ">>)}
OcrOutcomes == {Raised, Returned(<<" ">>), Returned(<<"o", " ">>)}
FetchOutcomes == {Raised, Returned(<<>>), Returned(<<"s">>)}

\* Text messages (m.text) users send
Texts ==
    { <<" ", "fetch", " ", "url">>,
      <<"Fetch", " ", "ba'o ca'o">>,
      <<"fetch">>,
      <<"trich xuat", " ", "ba'o ca'o">>,
      <<"Tri'ch Xua^'t", " ", "w">>,
      <<"w", " ", "BA'O CA'O">>,
      <<"ta.o ba'o ca'o">>,
      <<" ", "w", " ", "w", " ">> }

\* Names of the documents (doc.file_name) users send
FileNames == { <<"doc", ".pdf">>, <<"doc", ".PDF">>, <<"doc", ".txt">> }

----------------------------------------------------------------------------
(* Replies (bot.reply_to) *)

Greeting == <<"Chao! Gui anh hien truong, PDF bien ban hoac mo ta vu viec de toi phan tich. Go tao bao cao de xuat PDF.">>
PhotoSaved == <<"Anh da luu, dang chay OCR (Tieng Viet)...">>
OcrPreview(t) ==
    <<"OCR phat hien van ban (rut gon):\n">> \o Take(t, PreviewLen)
        \o (IF Len(t) > PreviewLen THEN <<"...">> ELSE <<>>)
PhotoFailed == <<"Loi khi phan tich. Thu lai sau.">>
DocSaved(fname) == <<"Da luu tai lieu: ">> \o fname
DocHint == <<"Neu can trich xuat noi dung, gui lenh: trich xuat <duong dan hoac ten file>.">>
Fetching(url) ==
    <<"Dang fetch noi dung tu: ">> \o url \o <<" ", "(neu chuc nang bat)">>
FetchPreview(t) == <<"Trich xuat noi dung (rut gon):\n">> \o Take(t, PreviewLen)
FetchFailed == <<"Khong lay duoc noi dung. Chuc nang crawl co the tat hoac URL khong cho phep.">>
ExtractStarted == <<"Bat dau trich xuat PDF (neu co).">>
ExtractFailed == <<"Loi khi trich xuat.">>
ReportStarted == <<"Dang tao bao cao PDF...">>
ReportDone(pdf) == <<"Bao cao tao xong: ">> \o pdf
ReportFailed == <<"Loi khi tao bao cao.">>
DefaultFailed == <<"Loi khi goi AI. Thu lai sau.">>

ReportTitle == <<"Bao cao tu Bot">>

----------------------------------------------------------------------------
(* Text dispatch of handle_text *)

IsFetch(t) == StartsWith(Lower(t), <<"fetch", " ">>)

IsExtract(t) ==
    StartsWith(Lower(t), <<"trich xuat">>) \/ StartsWith(Lower(t), <<"tri'ch xua^'t">>)

IsReport(t) ==
    \/ StartsWith(Lower(t), <<"ta.o ba'o ca'o">>)
    \/ Contains(Lower(t), "ta.o ba'o ca'o")
    \/ Contains(Lower(t), "ba'o ca'o")

\* Mutant: the report test comes before the fetch test
Route_report_first(t) ==
    IF IsReport(t) THEN "report"
    ELSE IF IsFetch(t) THEN "fetch"
    ELSE IF IsExtract(t) THEN "extract"
    ELSE "default"

\* Mutant: the report test comes before the extraction test
Route_report_before_extract(t) ==
    IF IsFetch(t) THEN "fetch"
    ELSE IF IsReport(t) THEN "report"
    ELSE IF IsExtract(t) THEN "extract"
    ELSE "default"

\* The branch handle_text takes for the stripped text t: the first test
\* that matches, in the order of the if statements
Route(t) ==
    IF IsFetch(t) THEN "fetch"
    ELSE IF IsExtract(t) THEN "extract"
    ELSE IF IsReport(t) THEN "report"
    ELSE "default"

\* The static failure notice of the except clause of a completion call site
FailureNotice(branch) ==
    CASE branch = "photo" -> PhotoFailed
      [] branch = "extract" -> ExtractFailed
      [] branch = "report" -> ReportFailed
      [] branch = "default" -> DefaultFailed

\* Mutant: the default path calls call_openai outside any try block
InTry_default_bare(branch) == branch \in {"photo", "extract", "report"}

\* Whether call_openai is called inside a try ... except Exception block
InTry(branch) == branch \in {"photo", "extract", "report", "default"}

----------------------------------------------------------------------------
(* State *)

VARIABLES
    user_context,        \* the dict uid -> deque of turns
    web_scrape_enabled,  \* WEB_SCRAPE_ENABLED
    canvas,              \* whether reportlab's canvas was imported
    files,               \* the paths written under MEDIA_DIR
    pc,                  \* where the running handler is: idle, call, try, except, escaped
    m,                   \* the event being handled, or the last one handled
    msgs,                \* the handler's local msgs
    ans,                 \* the handler's local ans / analysis
    replies,             \* what the handler has sent with bot.reply_to
    rendered,            \* the generate_pdf calls of the handler
    calls,               \* the call_openai calls of the handler
    h0,                  \* user_context and files when the handler started
    pushed,              \* the turns the handler has appended
    appended,            \* per user, the turns appended since the history was created or cleared
    resets,              \* the users whose history cmd_start has cleared
    edits,               \* the changes a holder of msgs has made to it
    parked,              \* the locals of the handler on the other worker thread
    nEvents              \* the number of events dispatched

vars == <<user_context, web_scrape_enabled, canvas, files, pc, m, msgs, ans, replies,
          rendered, calls, h0, pushed, appended, resets, edits, parked, nEvents>>

NoEvent ==
    [kind |-> "none", uid |-> 0, text |-> <<>>, branch |-> "none", outcome |-> "none",
     ocr |-> Raised]

\* A history a user has after n turns of plain chat: the texts "1", "3", ...
\* each answered by "2", "4", ...; what is kept is the last Capacity turns
Prefill(n) ==
    [i \in 1..n |->
        IF i % 2 = 1 THEN UserTurn(<<ToString(i)>>) ELSE AssistantTurn(<<ToString(i)>>)]

PrefillLens == {Capacity - 1, Capacity}

\* The locals and the bookkeeping of the handler a worker thread runs
Locals ==
    [pc |-> pc, m |-> m, msgs |-> msgs, ans |-> ans, replies |-> replies,
     rendered |-> rendered, calls |-> calls, h0 |-> h0, pushed |-> pushed,
     edits |-> edits]

\* The locals of a worker thread that has not run a handler yet
IdleLocals ==
    [pc |-> "idle", m |-> NoEvent, msgs |-> <<>>, ans |-> <<>>, replies |-> <<>>,
     rendered |-> <<>>, calls |-> 0,
     h0 |-> [ctx |-> [u \in {} |-> <<>>], files |-> {}], pushed |-> <<>>,
     edits |-> 0]

InitLocals ==
    /\ files = {}
    /\ pc = "idle"
    /\ m = NoEvent
    /\ msgs = <<>>
    /\ ans = <<>>
    /\ replies = <<>>
    /\ rendered = <<>>
    /\ calls = 0
    /\ pushed = <<>>
    /\ resets = {}
    /\ edits = 0
    /\ nEvents = 0
    /\ parked = IdleLocals

\* The store is empty at start-up; the other initial states are stores the
\* program reaches after user 1 has chatted for a while
Init ==
    /\ web_scrape_enabled \in BOOLEAN
    /\ canvas \in BOOLEAN
    /\ \/ user_context = [u \in {} |-> <<>>]
       \/ \E n \in PrefillLens : user_context = [u \in {1} |-> Prefill(n)]
    /\ appended = [u \in Users |-> Hist(user_context, u)]
    /\ h0 = [ctx |-> user_context, files |-> {}]
    /\ InitLocals

----------------------------------------------------------------------------
(* Handlers *)

\* The transport hands an event to its handler
Dispatch(kind, uid, text, branch, outcome, ocr) ==
    /\ pc = "idle"
    /\ m' = [kind |-> kind, uid |-> uid, text |-> text, branch |-> branch,
             outcome |-> outcome, ocr |-> ocr]
    /\ h0' = [ctx |-> user_context, files |-> files]
    /\ nEvents' = nEvents + 1
    /\ ans' = <<>>
    /\ rendered' = <<>>
    /\ calls' = 0
    /\ edits' = 0
    /\ UNCHANGED parked

\* The appends of a handler's first step, as the history log sees them
Logged(uid, turns) ==
    /\ pushed' = turns
    /\ appended' = [appended EXCEPT ![uid] = @ \o turns]

\* The handler returns
Return ==
    /\ pc' = "idle"
    /\ msgs' = <<>>

cmd_start(uid) ==
    /\ Dispatch("start", uid, <<>>, "none", "none", Raised)
    /\ user_context' = [ensure_context(user_context, uid) EXCEPT ![uid] = clear(@)]
    /\ replies' = <<Greeting>>
    /\ pushed' = <<>>
    /\ appended' = [appended EXCEPT ![uid] = <<>>]
    /\ resets' = resets \cup {uid}
    /\ Return
    /\ UNCHANGED <<web_scrape_enabled, canvas, files>>

handle_photo(uid, o) ==
    LET local == <<MEDIA_DIR, "/", ToString(uid), "_<file_id>.jpg">>
        ocr_text == ocr_image(o)
        content == IF ocr_text # <<>> THEN <<"[OCR] ">> \o ocr_text
                   ELSE <<"[Anh dinh kem]">>
        ctx == push_user(user_context, uid, content)
    IN  /\ Dispatch("photo", uid, ocr_text, "photo", "none", o)
        /\ files' = files \cup {local}
        /\ replies' = <<PhotoSaved>>
             \o (IF ocr_text # <<>> THEN <<OcrPreview(ocr_text)>> ELSE <<>>)
        /\ user_context' = ensure_context(ctx, uid)
        /\ msgs' = build_messages(ctx, uid)
        /\ Logged(uid, <<UserTurn(content)>>)
        /\ pc' = "call"
        /\ UNCHANGED <<web_scrape_enabled, canvas, resets>>

\* Mutant: the extension is compared without fname.lower()
handle_document_case_sensitive(uid, fname) ==
    LET local == <<MEDIA_DIR, "/", ToString(uid), "_<file_id>_">> \o fname
        pdf == EndsWith(fname, <<".pdf">>)
    IN  /\ Dispatch("document", uid, fname, "none", "none", Raised)
        /\ files' = files \cup {local}
        /\ replies' = <<DocSaved(fname)>> \o (IF pdf THEN <<DocHint>> ELSE <<>>)
        /\ IF pdf
           THEN /\ user_context' = push_user(user_context, uid, <<"[PDF] ">> \o local)
                /\ Logged(uid, <<UserTurn(<<"[PDF] ">> \o local)>>)
           ELSE /\ UNCHANGED <<user_context, appended>>
                /\ pushed' = <<>>
        /\ Return
        /\ UNCHANGED <<web_scrape_enabled, canvas, resets>>

handle_document(uid, fname) ==
    LET local == <<MEDIA_DIR, "/", ToString(uid), "_<file_id>_">> \o fname
        pdf == EndsWith(Lower(fname), <<".pdf">>)
    IN  /\ Dispatch("document", uid, fname, "none", "none", Raised)
        /\ files' = files \cup {local}
        /\ replies' = <<DocSaved(fname)>> \o (IF pdf THEN <<DocHint>> ELSE <<>>)
        /\ IF pdf
           THEN /\ user_context' = push_user(user_context, uid, <<"[PDF] ">> \o local)
                /\ Logged(uid, <<UserTurn(<<"[PDF] ">> \o local)>>)
           ELSE /\ UNCHANGED <<user_context, appended>>
                /\ pushed' = <<>>
        /\ Return
        /\ UNCHANGED <<web_scrape_enabled, canvas, resets>>

\* handle_text, "fetch <url>"
handle_text_fetch(uid, raw, o) ==
    LET text == Strip(raw)
        url == Strip(AfterFirstBlank(text))
        snippet == fetch_url_text(web_scrape_enabled, o)
    IN  /\ Route(text) = "fetch"
        /\ Dispatch("text", uid, raw, "fetch", IF snippet # <<>> THEN "fetched" ELSE "empty", Raised)
        /\ IF snippet # <<>>
           THEN /\ replies' = <<Fetching(url), FetchPreview(snippet)>>
                /\ user_context' = push_user(user_context, uid, <<"[WEB] ">> \o snippet)
                /\ Logged(uid, <<UserTurn(<<"[WEB] ">> \o snippet)>>)
           ELSE /\ replies' = <<Fetching(url), FetchFailed>>
                /\ UNCHANGED <<user_context, appended>>
                /\ pushed' = <<>>
        /\ Return
        /\ UNCHANGED <<web_scrape_enabled, canvas, files, resets>>

\* handle_text, "trich xuat ...", up to the completion call
handle_text_extract(uid, raw) ==
    LET text == Strip(raw)
        content == <<"[Yeu cau trich xuat PDF] ">> \o text
        ctx == push_user(user_context, uid, content)
    IN  /\ Route(text) = "extract"
        /\ Dispatch("text", uid, raw, "extract", "none", Raised)
        /\ replies' = <<ExtractStarted>>
        /\ user_context' = ensure_context(ctx, uid)
        /\ msgs' = build_messages(ctx, uid)
        /\ Logged(uid, <<UserTurn(content)>>)
        /\ pc' = "call"
        /\ UNCHANGED <<web_scrape_enabled, canvas, files, resets>>

\* handle_text, "... bao cao ...", up to the completion call
handle_text_report(uid, raw) ==
    LET text == Strip(raw)
    IN  /\ Route(text) = "report"
        /\ Dispatch("text", uid, raw, "report", "none", Raised)
        /\ replies' = <<ReportStarted>>
        /\ user_context' = ensure_context(user_context, uid)
        /\ msgs' = build_messages(user_context, uid)
        /\ Logged(uid, <<>>)
        /\ pc' = "call"
        /\ UNCHANGED <<web_scrape_enabled, canvas, files, resets>>

\* handle_text, any other text, up to the completion call
handle_text_default(uid, raw) ==
    LET text == Strip(raw)
        ctx == push_user(user_context, uid, text)
    IN  /\ Route(text) = "default"
        /\ Dispatch("text", uid, raw, "default", "none", Raised)
        /\ replies' = <<>>
        /\ user_context' = ensure_context(ctx, uid)
        /\ msgs' = build_messages(ctx, uid)
        /\ Logged(uid, <<UserTurn(text)>>)
        /\ pc' = "call"
        /\ UNCHANGED <<web_scrape_enabled, canvas, files, resets>>

\* call_openai(msgs) returns
call_returns(o) ==
    /\ pc = "call"
    /\ o.ok
    /\ ans' = call_openai(o)
    /\ calls' = calls + 1
    /\ m' = [m EXCEPT !.outcome = "returned"]
    /\ pc' = "try"
    /\ UNCHANGED <<user_context, web_scrape_enabled, canvas, files, msgs, replies, rendered,
                   h0, pushed, appended, resets, edits, parked, nEvents>>

\* Mutant: call_openai swallows the failure and returns an empty answer
call_raises_swallowed ==
    /\ pc = "call"
    /\ calls' = calls + 1
    /\ m' = [m EXCEPT !.outcome = "raised"]
    /\ ans' = <<>>
    /\ pc' = "try"
    /\ UNCHANGED <<user_context, web_scrape_enabled, canvas, files, msgs, replies, rendered,
                   h0, pushed, appended, resets, edits, parked, nEvents>>

\* call_openai(msgs) raises
call_raises ==
    /\ pc = "call"
    /\ calls' = calls + 1
    /\ m' = [m EXCEPT !.outcome = "raised"]
    /\ pc' = IF InTry(m.branch) THEN "except" ELSE "escaped"
    /\ UNCHANGED <<user_context, web_scrape_enabled, canvas, files, msgs, ans, replies,
                   rendered, h0, pushed, appended, resets, edits, parked, nEvents>>

\* Mutant: the answer is recorded as a user turn
try_answer_as_user(branch) ==
    /\ pc = "try"
    /\ m.branch = branch
    /\ user_context' = push_user(user_context, m.uid, ans)
    /\ pushed' = Append(pushed, UserTurn(ans))
    /\ appended' = [appended EXCEPT ![m.uid] = Append(@, UserTurn(ans))]
    /\ replies' = Append(replies, ans)
    /\ Return
    /\ UNCHANGED <<web_scrape_enabled, canvas, files, m, ans, rendered, calls, h0, resets,
                   edits, parked, nEvents>>

\* push_assistant(uid, ans); bot.reply_to(m, ans)
try_answer(branch) ==
    /\ pc = "try"
    /\ m.branch = branch
    /\ user_context' = push_assistant(user_context, m.uid, ans)
    /\ pushed' = Append(pushed, AssistantTurn(ans))
    /\ appended' = [appended EXCEPT ![m.uid] = Append(@, AssistantTurn(ans))]
    /\ replies' = Append(replies, ans)
    /\ Return
    /\ UNCHANGED <<web_scrape_enabled, canvas, files, m, ans, rendered, calls, h0, resets,
                   edits, parked, nEvents>>

\* Mutant: the report branch does not record the answer
try_report_push_skipped ==
    /\ pc = "try"
    /\ m.branch = "report"
    /\ pc' = "render"
    /\ UNCHANGED <<user_context, web_scrape_enabled, canvas, files, m, msgs, ans, replies,
                   rendered, calls, h0, pushed, appended, resets, edits, parked,
                   nEvents>>

\* Report branch, try body: push_assistant(uid, analysis)
try_report_push ==
    /\ pc = "try"
    /\ m.branch = "report"
    /\ user_context' = push_assistant(user_context, m.uid, ans)
    /\ pushed' = Append(pushed, AssistantTurn(ans))
    /\ appended' = [appended EXCEPT ![m.uid] = Append(@, AssistantTurn(ans))]
    /\ pc' = "render"
    /\ UNCHANGED <<web_scrape_enabled, canvas, files, m, msgs, ans, replies, rendered,
                   calls, h0, resets, edits, parked, nEvents>>

\* Report branch, try body: pdf = generate_pdf(uid, "Bao cao tu Bot", analysis)
try_report_render ==
    LET pdf == generate_pdf(canvas, m.uid, ReportTitle, ans)
    IN  /\ pc = "render"
        /\ rendered' = Append(rendered, pdf)
        /\ files' = files \cup {pdf.path}
        /\ pc' = "reply"
        /\ UNCHANGED <<user_context, web_scrape_enabled, canvas, m, msgs, ans, replies,
                       calls, h0, pushed, appended, resets, edits, parked, nEvents>>

\* Report branch, try body: bot.reply_to(m, f"Bao cao tao xong: {pdf}"); return
try_report_reply ==
    /\ pc = "reply"
    /\ replies' = Append(replies, ReportDone(rendered[Len(rendered)].path))
    /\ Return
    /\ UNCHANGED <<user_context, web_scrape_enabled, canvas, files, m, ans, rendered,
                   calls, h0, pushed, appended, resets, edits, parked, nEvents>>

\* Mutant: the except clause also records its notice as an assistant turn
except_clause_push(branch) ==
    /\ pc = "except"
    /\ m.branch = branch
    /\ replies' = Append(replies, FailureNotice(branch))
    /\ user_context' = push_assistant(user_context, m.uid, FailureNotice(branch))
    /\ pc' = "idle"
    /\ msgs' = <<>>
    /\ UNCHANGED <<web_scrape_enabled, canvas, files, m, ans, rendered, calls, h0, pushed,
                   appended, resets, edits, parked, nEvents>>

\* except Exception: bot.reply_to(m, <the site's notice>)
except_clause(branch) ==
    /\ pc = "except"
    /\ m.branch = branch
    /\ replies' = Append(replies, FailureNotice(branch))
    /\ Return
    /\ UNCHANGED <<user_context, web_scrape_enabled, canvas, files, m, ans, rendered, calls,
                   h0, pushed, appended, resets, edits, parked, nEvents>>

Next ==
    \/ nEvents < MaxEvents /\ \E uid \in Users : cmd_start(uid)
    \/ nEvents < MaxEvents /\ \E uid \in Users, o \in OcrOutcomes : handle_photo(uid, o)
    \/ nEvents < MaxEvents /\ \E uid \in Users, f \in FileNames : handle_document(uid, f)
    \/ nEvents < MaxEvents /\ \E uid \in Users, t \in Texts, o \in FetchOutcomes :
           handle_text_fetch(uid, t, o)
    \/ nEvents < MaxEvents /\ \E uid \in Users, t \in Texts : handle_text_extract(uid, t)
    \/ nEvents < MaxEvents /\ \E uid \in Users, t \in Texts : handle_text_report(uid, t)
    \/ nEvents < MaxEvents /\ \E uid \in Users, t \in Texts : handle_text_default(uid, t)
    \/ \E o \in CompletionOutcomes : call_returns(o)
    \/ call_raises
    \/ try_answer("photo")
    \/ try_answer("extract")
    \/ try_answer("default")
    \/ try_report_push
    \/ try_report_render
    \/ try_report_reply
    \/ except_clause("photo")
    \/ except_clause("extract")
    \/ except_clause("report")
    \/ except_clause("default")

Spec == Init /\ [][Next]_vars

----------------------------------------------------------------------------
(* A run of plain chat: one user sends the texts "1", "2", ... one after   *)
(* the other from an empty store, and every completion call succeeds with  *)
(* the answer "re k" to message k.                                         *)

ChatUser == CHOOSE u \in Users : \A v \in Users : u <= v

MessageText(k) == <<ToString(k)>>
AnswerText(k) == <<"re ", ToString(k)>>

InitChat ==
    /\ web_scrape_enabled \in BOOLEAN
    /\ canvas \in BOOLEAN
    /\ user_context = [u \in {} |-> <<>>]
    /\ appended = [u \in Users |-> <<>>]
    /\ h0 = [ctx |-> user_context, files |-> {}]
    /\ InitLocals

NextChat ==
    \/ nEvents < ScenarioLen /\ handle_text_default(ChatUser, MessageText(nEvents + 1))
    \/ call_returns(Returned(AnswerText(nEvents)))
    \/ try_answer("default")

SpecChat == InitChat /\ [][NextChat]_vars

----------------------------------------------------------------------------
(* A holder of the list build_messages returned changes it while it is     *)
(* live, i.e. during the completion call.  Python semantics: the list is   *)
(* a new object, its elements after the first are the dicts stored in the  *)
(* user's deque.                                                           *)

MaxEdits == 1

\* The positions of msgs a holder changes: the first, the second, the last
EditAt(ms) == {i \in {1, 2, Len(ms)} : 1 <= i /\ i <= Len(ms)}

\* A dict a holder makes
FreshTurn == [role |-> "user", content |-> <<"x">>, ref |-> 0]

\* The store after msgs[i][field] = value: the dict is changed in place, and
\* it is the stored one when the element came from the deque
write_through(ctx, uid, ms, i, field, value) ==
    IF ms[i].ref = 0 THEN ctx
    ELSE [ctx EXCEPT ![uid] =
             [@ EXCEPT ![ms[i].ref] =
                 IF field = "role" THEN [@ EXCEPT !.role = value]
                 ELSE [@ EXCEPT !.content = value]]]

Edit ==
    /\ pc = "call"
    /\ edits < MaxEdits
    /\ edits' = edits + 1
    /\ UNCHANGED <<web_scrape_enabled, canvas, files, pc, m, ans, replies, rendered, calls,
                   h0, pushed, appended, resets, parked, nEvents>>

\* msgs.append(d)
list_append ==
    /\ Edit
    /\ msgs' = Append(msgs, FreshTurn)
    /\ UNCHANGED user_context

\* del msgs[i]
list_delete(i) ==
    /\ Edit
    /\ msgs' = SubSeq(msgs, 1, i - 1) \o SubSeq(msgs, i + 1, Len(msgs))
    /\ UNCHANGED user_context

\* msgs[i] = d
list_replace(i) ==
    /\ Edit
    /\ msgs' = [msgs EXCEPT ![i] = FreshTurn]
    /\ UNCHANGED user_context

\* msgs[i]["role"] = value
turn_set_role(i, value) ==
    /\ Edit
    /\ msgs' = [msgs EXCEPT ![i].role = value]
    /\ user_context' = write_through(user_context, m.uid, msgs, i, "role", value)

\* msgs[i]["content"] = value
turn_set_content(i, value) ==
    /\ Edit
    /\ msgs' = [msgs EXCEPT ![i].content = value]
    /\ user_context' = write_through(user_context, m.uid, msgs, i, "content", value)

NextAlias ==
    \/ Next
    \/ list_append
    \/ \E i \in EditAt(msgs) : list_delete(i)
    \/ \E i \in EditAt(msgs) : list_replace(i)
    \/ \E i \in EditAt(msgs) : turn_set_role(i, "system")
    \/ \E i \in EditAt(msgs) : turn_set_content(i, <<"x">>)

SpecAlias == Init /\ [][NextAlias]_vars

----------------------------------------------------------------------------
(* Dispatch as TeleBot does it.  bot = telebot.TeleBot(TOKEN,               *)
(* parse_mode="HTML") takes the library's defaults threaded=True and        *)
(* num_threads=2: infinity_polling hands every handler call to a pool of    *)
(* two worker threads.  The variables pc, m, msgs, ... are the locals of    *)
(* the worker that takes the next step, parked those of the other worker;   *)
(* the store, the files and the configuration are shared.  The handlers     *)
(* take no lock.                                                            *)

\* The other worker thread takes the next steps
Switch ==
    /\ pc # "idle" \/ parked.pc # "idle"
    /\ parked' = Locals
    /\ pc' = parked.pc
    /\ m' = parked.m
    /\ msgs' = parked.msgs
    /\ ans' = parked.ans
    /\ replies' = parked.replies
    /\ rendered' = parked.rendered
    /\ calls' = parked.calls
    /\ h0' = parked.h0
    /\ pushed' = parked.pushed
    /\ edits' = parked.edits
    /\ UNCHANGED <<user_context, web_scrape_enabled, canvas, files, appended, resets, nEvents>>

NextThreaded ==
    \/ Next
    \/ Switch

SpecThreaded == Init /\ [][NextThreaded]_vars

----------------------------------------------------------------------------
(* Properties *)

\* The last n items of s
LastN(s, n) == SubSeq(s, Len(s) - n + 1, Len(s))

\* The turns of a list of turns that have the given role
HasRole(s, role) == \E i \in 1..Len(s) : s[i].role = role

\* The running (or last) handler has returned
HandlerReturned == pc = "idle" /\ m.kind # "none"

\* C1: for every user, the stored history is the last min(n, 24) of the n
\* turns appended since the history was created or cleared, in the order
\* they were appended: eviction is FIFO and nothing else is dropped or
\* reordered.
C1_FifoEviction ==
    \A u \in Users :
        Hist(user_context, u)
            = LastN(appended[u], Min(Len(appended[u]), Capacity))

\* C1 witness: more than 24 turns were appended to a history, the last two
\* by one handler as a user turn and an assistant turn.
C1_Witness ==
    /\ HandlerReturned
    /\ Len(appended[m.uid]) > Capacity
    /\ Len(pushed) = 2
    /\ pushed[1].role = "user"
    /\ pushed[2].role = "assistant"

\* C2: in every reachable state every stored history has at most 24 turns,
\* and a history created by the running handler (its user had none when the
\* handler started) holds nothing but the turns that handler appended: it
\* started empty.
C2_BoundedAndStartsEmpty ==
    /\ \A u \in DOMAIN user_context : Len(user_context[u]) <= Capacity
    /\ \A u \in DOMAIN user_context \ DOMAIN h0.ctx :
           u = m.uid /\ user_context[u] = pushed

\* C2 witness: one user's history is full after an append that evicted, and
\* another user's history has just been created.
C2_Witness ==
    /\ \E u \in DOMAIN user_context :
           Len(user_context[u]) = Capacity /\ Len(appended[u]) > Capacity
    /\ \E v \in DOMAIN user_context : v \notin DOMAIN h0.ctx

\* C3: once cmd_start has returned for a user, that user's history is the
\* empty sequence whatever it held before, and build_messages gives the
\* system instruction alone; afterwards the history of a user who has reset
\* exists, holds at most 24 turns and stores what is appended to it.
C3_ResetEmpties ==
    /\ (m.kind = "start" /\ pc = "idle") =>
           /\ m.uid \in DOMAIN user_context
           /\ user_context[m.uid] = <<>>
           /\ build_messages(user_context, m.uid)
                  = <<[role |-> "system", content |-> SYSTEM_PROMPT, ref |-> 0]>>
    /\ \A u \in resets :
           /\ u \in DOMAIN user_context
           /\ Len(user_context[u]) <= Capacity
           /\ user_context[u] = LastN(appended[u], Min(Len(appended[u]), Capacity))

\* C3 witness: cmd_start has returned for a user whose history was full.
C3_Witness ==
    /\ m.kind = "start"
    /\ pc = "idle"
    /\ Len(Hist(h0.ctx, m.uid)) = Capacity

\* The handler of a text message has not gone down the extraction, report
\* or default path: it made no completion call and is at none, it rendered
\* no report and it did not append the raw text as a user turn.
NoFallThrough ==
    /\ calls = 0
    /\ pc = "idle"
    /\ rendered = <<>>
    /\ \A i \in 1..Len(pushed) : pushed[i] # UserTurn(Strip(m.text))

\* C4 as claimed: a text message starting with the fetch keyword never
\* falls through to the completion paths.
C4_Original ==
    (m.kind = "text" /\ StartsWith(Lower(Strip(m.text)), <<"fetch">>))
        => NoFallThrough

\* C4 as amended: a text message starting (case-insensitively, after
\* stripping) with the fetch keyword followed by a blank never falls through
\* to the completion paths, even if it contains the report keyword.
C4_FetchPrecedence ==
    (m.kind = "text" /\ StartsWith(Lower(Strip(m.text)), <<"fetch", " ">>))
        => NoFallThrough

\* C4 witness: a handled message "Fetch <report keyword>".
C4_Witness ==
    /\ HandlerReturned
    /\ m.kind = "text"
    /\ StartsWith(Lower(Strip(m.text)), <<"fetch", " ">>)
    /\ Contains(Lower(m.text), "ba'o ca'o")

\* C5: when "fetch <url>" is handled and the fetch gives nothing (scraping
\* is disabled, or the fetch failed or found no text), the last reply is the
\* no-content notice, the store is exactly as it was before the message and
\* no completion call is made.
C5_EmptyFetch ==
    (m.branch = "fetch" /\ (~web_scrape_enabled \/ m.outcome = "empty")) =>
        /\ pc = "idle"
        /\ replies = <<Fetching(Strip(AfterFirstBlank(Strip(m.text)))), FetchFailed>>
        /\ user_context = h0.ctx
        /\ pushed = <<>>
        /\ calls = 0

\* C5 witness: a fetch message handled with scraping disabled, from a user
\* who has a history.
C5_Witness ==
    /\ HandlerReturned
    /\ m.branch = "fetch"
    /\ ~web_scrape_enabled
    /\ Hist(h0.ctx, m.uid) # <<>>

\* C6: at each of the four completion call sites a failed call is caught in
\* the handler (it reaches the except clause, never escapes), the last reply
\* is then that site's static notice, and the handler appends no assistant
\* turn.
C6_FailureCaught ==
    m.outcome = "raised" =>
        /\ pc \in {"except", "idle"}
        /\ m.branch \in {"photo", "extract", "report", "default"}
        /\ ~HasRole(pushed, "assistant")
        /\ pc = "idle" =>
              /\ replies # <<>>
              /\ m.branch = "photo" => replies[Len(replies)] = PhotoFailed
              /\ m.branch = "extract" => replies[Len(replies)] = ExtractFailed
              /\ m.branch = "report" => replies[Len(replies)] = ReportFailed
              /\ m.branch = "default" => replies[Len(replies)] = DefaultFailed

\* C6 witness: a default-path handler has returned after its call failed.
C6_Witness ==
    /\ HandlerReturned
    /\ m.outcome = "raised"
    /\ m.branch = "default"

\* C7: when the completion call of a report request fails, the replies are
\* the progress notice and the static report-failure notice, generate_pdf is
\* not invoked and no file is written, and no assistant turn is appended.
C7_ReportFailure ==
    (m.branch = "report" /\ m.outcome = "raised") =>
        /\ rendered = <<>>
        /\ files = h0.files
        /\ ~HasRole(pushed, "assistant")
        /\ Hist(user_context, m.uid) = Hist(h0.ctx, m.uid)
        /\ pc = "idle" => replies = <<ReportStarted, ReportFailed>>

\* C7 witness: a report request has returned after its call failed, for a
\* user who has a history.
C7_Witness ==
    /\ HandlerReturned
    /\ m.branch = "report"
    /\ m.outcome = "raised"
    /\ Hist(h0.ctx, m.uid) # <<>>

\* C8 as claimed: after a handler whose completion call failed, the user's
\* history equals the history before the handler started.
C8_Original ==
    (HandlerReturned /\ m.outcome = "raised") =>
        Hist(user_context, m.uid) = Hist(h0.ctx, m.uid)

\* C8 as amended: after a handler whose completion call failed, nothing has
\* been appended after the call: the history is the one before the handler
\* plus the single user turn the handler appended before the call (photo,
\* extraction, default text; the oldest turn evicted when it was full), and
\* equals the history before the handler only for a report request.
C8_FailureKeepsUserTurn ==
    (HandlerReturned /\ m.outcome = "raised") =>
        LET h == Hist(user_context, m.uid)
            b == Hist(h0.ctx, m.uid)
        IN  IF m.branch = "report"
            THEN h = b /\ pushed = <<>>
            ELSE /\ Len(pushed) = 1
                 /\ pushed[1].role = "user"
                 /\ h = LastN(Append(b, pushed[1]), Min(Len(b) + 1, Capacity))

\* C8 witness: a photo handler has returned after its call failed, for a
\* user whose history was full.
C8_Witness ==
    /\ HandlerReturned
    /\ m.outcome = "raised"
    /\ m.branch = "photo"
    /\ Len(Hist(h0.ctx, m.uid)) = Capacity

\* C9 as claimed: after 30 plain-text messages from one user, each answered,
\* the history has 24 turns and contains the user turns of messages 7 to 30,
\* not those of messages 1 to 6, interleaved with assistant replies.
C9_Original ==
    (pc = "idle" /\ nEvents = ScenarioLen) =>
        LET h == Hist(user_context, ChatUser)
            Kept(k) == \E i \in 1..Len(h) : h[i] = UserTurn(MessageText(k))
        IN  /\ Len(h) = Capacity
            /\ \A k \in (ScenarioLen - Capacity + 1)..ScenarioLen : Kept(k)
            /\ \A k \in 1..(ScenarioLen - Capacity) : ~Kept(k)
            /\ HasRole(h, "assistant")

\* C9 as amended: after 30 plain-text messages from one user, each answered,
\* the history has 24 turns: the user turns of the last 12 messages (19 to
\* 30), each followed by its assistant reply, in order; every turn of
\* messages 1 to 18 has been evicted.
C9_LastTwelveExchanges ==
    (pc = "idle" /\ nEvents = ScenarioLen) =>
        LET h == Hist(user_context, ChatUser)
            first == ScenarioLen - (Capacity \div 2)
        IN  /\ Len(h) = Capacity
            /\ \A j \in 1..(Capacity \div 2) :
                   /\ h[2 * j - 1] = UserTurn(MessageText(first + j))
                   /\ h[2 * j] = AssistantTurn(AnswerText(first + j))

\* C9 witness: the last message of the run has been answered.
C9_Witness ==
    /\ pc = "idle"
    /\ nEvents = ScenarioLen
    /\ Len(appended[ChatUser]) = 2 * ScenarioLen

\* C10: no change a holder makes to the list build_messages returned (adding,
\* removing or replacing elements, changing the role or content of a turn
\* in it) changes the stored histories.
C10_NoAlias == [][edits' > edits => user_context' = user_context]_vars

\* What call_openai sends for a list of messages: role and content of each
Sent(ms) == [i \in 1..Len(ms) |-> [role |-> ms[i].role, content |-> ms[i].content]]

\* C11: the list passed to a completion call is, at the time of the call,
\* the system instruction followed by the user's whole stored history in
\* order: its first element has role system, no later one has, it has 1 to
\* 25 elements, and when the handler appended a user turn before the call
\* that turn is its last element.
C11_PromptEnvelope ==
    pc = "call" =>
        /\ Len(msgs) >= 1
        /\ Len(msgs) <= Capacity + 1
        /\ msgs[1].role = "system"
        /\ msgs[1].content = SYSTEM_PROMPT
        /\ \A i \in 2..Len(msgs) : msgs[i].role # "system"
        /\ Sent(Tail(msgs)) = Hist(user_context, m.uid)
        /\ pushed # <<>> =>
               /\ pushed[Len(pushed)].role = "user"
               /\ Sent(msgs)[Len(msgs)] = pushed[Len(pushed)]

\* C11 witness: a default-path handler is at its completion call with a
\* full history, so the list has 25 elements ending with the new user turn.
C11_Witness ==
    /\ pc = "call"
    /\ m.branch = "default"
    /\ Len(msgs) = Capacity + 1
    /\ Len(appended[m.uid]) > Capacity

\* C12: handlers run to completion before the next event is handled: at
\* most one handler is executing at any time, and nothing is appended to a
\* user's history between a handler's snapshot and its own next append.
C12_OneHandlerAtATime ==
    /\ pc = "idle" \/ parked.pc = "idle"
    /\ pc \in {"call", "try"} => Sent(Tail(msgs)) = Hist(user_context, m.uid)

\* t occurs in s at position i
OccursAt(s, t, i) ==
    /\ i + Len(t) - 1 <= Len(s)
    /\ SubSeq(s, i, i + Len(t) - 1) = t

\* a, b, c and d occur in s one after the other, without overlap
InOrder(s, a, b, c, d) ==
    \E i \in 1..(Len(s) + 1) :
        /\ OccursAt(s, a, i)
        /\ \E j \in (i + Len(a))..(Len(s) + 1) :
            /\ OccursAt(s, b, j)
            /\ \E k \in (j + Len(b))..(Len(s) + 1) :
                /\ OccursAt(s, c, k)
                /\ \E l \in (k + Len(c))..(Len(s) + 1) : OccursAt(s, d, l)

\* C13 (as amended): without the PDF library the report handler's
\* generate_pdf call writes a plain-text file that holds the user identifier,
\* the title, the content and the watermark, in that order (the identifier
\* comes before the title), and returns and reports the location of that
\* .txt file, which is the file written.
C13_TextFallback ==
    (~canvas /\ rendered # <<>>) =>
        LET r == rendered[1]
        IN  /\ Len(rendered) = 1
            /\ r.uid = m.uid /\ r.title = ReportTitle /\ r.content = ans
            /\ InOrder(r.body, <<ToString(m.uid)>>, ReportTitle, ans, <<WATERMARK_TEXT>>)
            /\ r.path[Len(r.path)] = ".txt"
            /\ r.path \in files
            /\ pc = "idle" => replies[Len(replies)] = ReportDone(r.path)

C13_Witness ==
    /\ ~canvas
    /\ rendered # <<>>
    /\ m.branch = "report"
    /\ rendered[1].content = <<"a2">>

\* C13 as stated: the text artifact holds the title, the user identifier, the
\* content and the watermark, in that order.
C13_Original ==
    (~canvas /\ rendered # <<>>) =>
        InOrder(rendered[1].body, ReportTitle, <<ToString(m.uid)>>, ans,
                <<WATERMARK_TEXT>>)

\* C14: a document event never calls the completion service and never
\* appends an assistant turn; when the file name ends with .pdf in any case
\* it appends exactly one user turn, "[PDF] " and the path the file was
\* stored at, and for any other file name the store is left as it was.
C14_DocumentFrame ==
    m.kind = "document" =>
        LET fname == m.text
            stored == <<MEDIA_DIR, "/", ToString(m.uid), "_<file_id>_">> \o fname
            marker == UserTurn(<<"[PDF] ">> \o stored)
            before == Hist(h0.ctx, m.uid)
        IN  /\ pc = "idle"
            /\ calls = 0
            /\ msgs = <<>>
            /\ ~HasRole(pushed, "assistant")
            /\ stored \in files
            /\ IF fname[Len(fname)] \in {".pdf", ".PDF"}
               THEN /\ pushed = <<marker>>
                    /\ Hist(user_context, m.uid)
                         = LastN(Append(before, marker), Min(Len(before) + 1, Capacity))
                    /\ \A u \in Users \ {m.uid} :
                         Hist(user_context, u) = Hist(h0.ctx, u)
               ELSE /\ pushed = <<>>
                    /\ user_context = h0.ctx

C14_Witness ==
    /\ m.kind = "document"
    /\ m.text = <<"doc", ".PDF">>
    /\ Len(Hist(h0.ctx, m.uid)) = Capacity
    /\ pushed # <<>>

\* C15: ensure_context is total and idempotent.  On every store the program
\* reaches and for every user: afterwards the user has a history; it is
\* empty if the user had none and the whole store is as it was if the user
\* had one; nobody else's history changes; a second call changes nothing.
\* In the report handler, whose build_messages is the first to call it, the
\* user's turns are all still there at the completion call, and
\* push_assistant, which calls it again, adds its turn to them.
C15_EnsureIdempotent ==
    /\ \A u \in Users :
        LET c == ensure_context(user_context, u)
        IN  /\ DOMAIN c = DOMAIN user_context \cup {u}
            /\ u \notin DOMAIN user_context => c[u] = <<>>
            /\ u \in DOMAIN user_context => c = user_context
            /\ \A v \in DOMAIN user_context : c[v] = user_context[v]
            /\ ensure_context(c, u) = c
    /\ (m.branch = "report" /\ pc \in {"call", "try", "except"}) =>
        /\ m.uid \in DOMAIN user_context
        /\ user_context[m.uid] = Hist(h0.ctx, m.uid)
        /\ \A v \in DOMAIN h0.ctx : user_context[v] = h0.ctx[v]
    /\ (m.branch = "report" /\ pushed # <<>>) =>
        LET before == Hist(h0.ctx, m.uid)
        IN  user_context[m.uid]
              = LastN(before \o pushed, Min(Len(before) + 1, Capacity))

C15_Witness ==
    /\ m.branch = "report"
    /\ pc = "idle"
    /\ pushed # <<>>
    /\ Len(Hist(h0.ctx, m.uid)) = Capacity - 1
    /\ \E u \in Users : u \notin DOMAIN user_context

\* C16: a text message takes exactly one of the branches fetch, extraction,
\* report and default, the first whose test matches in that order, and makes
\* at most one completion call.  A message that starts with an extraction
\* keyword and contains the report keyword is an extraction request: its
\* tagged text is appended and no report is rendered.  A message that
\* contains the report keyword and matches neither the fetch nor the
\* extraction test is a report request, never default chat: its text is not
\* appended.
C16_FirstMatchWins ==
    m.kind = "text" =>
        LET text == Strip(m.text)
            low == Lower(text)
            fetchKw == Len(low) >= 2 /\ low[1] = "fetch" /\ low[2] = " "
            extractKw == low # <<>> /\ low[1] \in {"trich xuat", "tri'ch xua^'t"}
            reportKw == \E i \in 1..Len(low) : low[i] \in {"ba'o ca'o", "ta.o ba'o ca'o"}
            tagged == UserTurn(<<"[Yeu cau trich xuat PDF] ">> \o text)
        IN  /\ m.branch = (IF fetchKw THEN "fetch"
                           ELSE IF extractKw THEN "extract"
                           ELSE IF reportKw THEN "report"
                           ELSE "default")
            /\ calls <= 1
            /\ m.branch = "fetch" => calls = 0 /\ replies[1] = Fetching(Strip(AfterFirstBlank(text)))
            /\ m.branch = "extract" => replies[1] = ExtractStarted /\ pushed[1] = tagged
            /\ m.branch = "report" => replies[1] = ReportStarted /\ ~HasRole(pushed, "user")
            /\ m.branch = "default" => pushed[1] = UserTurn(text) /\ rendered = <<>>
            /\ m.branch # "report" => rendered = <<>>
            /\ (extractKw /\ reportKw) =>
                /\ m.branch = "extract"
                /\ pushed[1] = tagged
                /\ rendered = <<>>
                /\ \A i \in 1..Len(replies) : replies[i] # ReportStarted
            /\ (reportKw /\ ~fetchKw /\ ~extractKw) =>
                /\ m.branch = "report"
                /\ \A i \in 1..Len(pushed) : pushed[i] # UserTurn(text)

C16_Witness ==
    /\ m.kind = "text"
    /\ m.text = <<"trich xuat", " ", "ba'o ca'o">>
    /\ pc = "idle"
    /\ calls = 1
    /\ Len(pushed) = 2

\* C17: a report request appends no user turn; its completion call is made
\* on the history as it stood before the message; when the call succeeds
\* the history grows by exactly one assistant turn, the answer, and that
\* turn is there before generate_pdf is called with the same answer as
\* content, which in turn happens before the reply that gives the location
\* of the report.
C17_ReportOrder ==
    m.branch = "report" =>
        LET before == Hist(h0.ctx, m.uid)
            answer == AssistantTurn(ans)
        IN  /\ ~HasRole(pushed, "user")
            /\ pc # "idle" => Sent(Tail(msgs)) = before
            /\ pc \in {"call", "try", "except"} =>
                 pushed = <<>> /\ Hist(user_context, m.uid) = before
            /\ pc \in {"call", "try", "except", "render"} =>
                 rendered = <<>> /\ files = h0.files
            /\ pc # "idle" => replies = <<ReportStarted>>
            /\ (pc \in {"render", "reply"} \/ (pc = "idle" /\ m.outcome = "returned")) =>
                 /\ pushed = <<answer>>
                 /\ Hist(user_context, m.uid)
                      = LastN(Append(before, answer), Min(Len(before) + 1, Capacity))
            /\ rendered # <<>> =>
                 /\ pushed = <<answer>>
                 /\ Len(rendered) = 1
                 /\ rendered[1].uid = m.uid
                 /\ rendered[1].title = ReportTitle
                 /\ rendered[1].content = ans
            /\ (pc = "idle" /\ m.outcome = "returned") =>
                 /\ rendered # <<>>
                 /\ replies = <<ReportStarted, ReportDone(rendered[1].path)>>

C17_Witness ==
    /\ m.branch = "report"
    /\ pc = "idle"
    /\ m.outcome = "returned"
    /\ Len(Hist(h0.ctx, m.uid)) = Capacity
    /\ Len(replies) = 2

\* C18: a photo event appends exactly one user turn before the completion
\* call: "[OCR] " and the OCR text when the engine gave text that is not
\* blank, the attached-image marker otherwise (blank text, or the engine
\* failed).  The completion call is made in both cases.  The OCR preview is
\* replied only when there is OCR text, and a failed OCR shows in no reply:
\* the replies are the saved notice, then the answer or the notice of a
\* failed completion call.
C18_PhotoTurn ==
    m.kind = "photo" =>
        LET hasText == m.ocr.ok /\ \E i \in 1..Len(m.ocr.text) : m.ocr.text[i] # " "
            turn == IF hasText THEN UserTurn(<<"[OCR] ">> \o Strip(m.ocr.text))
                    ELSE UserTurn(<<"[Anh dinh kem]">>)
            before == Hist(h0.ctx, m.uid)
            first == <<PhotoSaved>>
                       \o (IF hasText THEN <<OcrPreview(Strip(m.ocr.text))>> ELSE <<>>)
        IN  /\ pushed # <<>> /\ pushed[1] = turn
            /\ \A i \in 2..Len(pushed) : pushed[i].role = "assistant"
            /\ pc = "call" =>
                /\ calls = 0
                /\ pushed = <<turn>>
                /\ Sent(msgs)[Len(msgs)] = turn
                /\ Hist(user_context, m.uid)
                     = LastN(Append(before, turn), Min(Len(before) + 1, Capacity))
            /\ pc # "call" => calls = 1
            /\ pc \in {"call", "try", "except"} => replies = first
            /\ (pc = "idle" /\ m.outcome = "returned") => replies = Append(first, ans)
            /\ (pc = "idle" /\ m.outcome = "raised") => replies = Append(first, PhotoFailed)

C18_Witness ==
    /\ m.kind = "photo"
    /\ ~m.ocr.ok
    /\ pc = "idle"
    /\ m.outcome = "returned"
    /\ Len(Hist(h0.ctx, m.uid)) = Capacity

\* The state of a default-path text message handled with the user turn
\* `user`: at the completion call the turn is the last of the history and of
\* the prompt and nothing was replied; after a successful call the answer is
\* appended as an assistant turn, it is the one reply, and the last two
\* turns of the history are the user turn and the assistant turn.
DefaultExchange(user) ==
    LET before == Hist(h0.ctx, m.uid)
        answer == AssistantTurn(ans)
    IN  /\ pc \in {"call", "try"} =>
            /\ pushed = <<user>>
            /\ replies = <<>>
            /\ Sent(msgs)[Len(msgs)] = user
            /\ LastN(Hist(user_context, m.uid), 1) = <<user>>
        /\ (pc = "idle" /\ m.outcome = "returned") =>
            /\ calls = 1
            /\ pushed = <<user, answer>>
            /\ replies = <<pushed[2].content>>
            /\ LastN(Hist(user_context, m.uid), 2) = <<user, answer>>
            /\ Hist(user_context, m.uid)
                 = LastN(before \o <<user, answer>>, Min(Len(before) + 2, Capacity))

\* C19 as stated: on the default path the raw text of the message is the
\* user turn appended before the call, the answer is the assistant turn
\* appended after it and the reply, and the two are the last two turns.
C19_Original ==
    m.branch = "default" => DefaultExchange(UserTurn(m.text))

\* C19 (as amended): on the default path the user turn appended before the
\* call is the text of the message without its leading and trailing
\* blanks, untagged; the answer is the assistant turn appended after the
\* call and the reply; the two are the last two turns of the history.
C19_DefaultExchange ==
    m.branch = "default" => DefaultExchange(UserTurn(Strip(m.text)))

C19_Witness ==
    /\ m.branch = "default"
    /\ pc = "idle"
    /\ m.outcome = "returned"
    /\ m.text = <<" ", "w", " ", "w", " ">>
    /\ Len(Hist(h0.ctx, m.uid)) = Capacity

\* C20: histories are per user.  While and after an event of user A is
\* handled (start, photo, document or text, the completion call returning or
\* raising), every other user has a history exactly if they had one before
\* the event, and it holds the same turns; and the prompt sent for A is the
\* system message followed by the last turns appended for A, so it holds no
\* turn appended for another user.
C20_PerUserIsolation ==
    m.kind # "none" =>
        /\ \A u \in Users \ {m.uid} :
            /\ u \in DOMAIN user_context <=> u \in DOMAIN h0.ctx
            /\ Hist(user_context, u) = Hist(h0.ctx, u)
        /\ pc = "call" =>
            /\ Len(msgs) - 1 <= Len(appended[m.uid])
            /\ Sent(Tail(msgs)) = LastN(appended[m.uid], Len(msgs) - 1)

C20_Witness ==
    /\ pc = "call"
    /\ m.uid = 2
    /\ Len(msgs) = 3
    /\ Len(Hist(user_context, 1)) = Capacity

====
